---- MODULE Spec2Model ----
(***************************************************************************)
(* Model of consumer.go: one Consumer, the local callers that invoke its   *)
(* methods concurrently, and the two worker channels (control, payload)    *)
(* that deliver notifications to the handlers it registered.               *)
(*                                                                         *)
(* A method that issues channel.Request() is split at the request: the     *)
(* caller blocks there and every other goroutine may run.  Close and       *)
(* transportClosed are also split right after their compare-and-swap, the  *)
(* only synchronisation the code performs.  A notification handler has no  *)
(* blocking call and is one action.  Callbacks (onClose, onPause, ...) are *)
(* taken to be registered; an invocation is recorded like an emission.     *)
(***************************************************************************)
EXTENDS Integers, Sequences, FiniteSets, TLC

\* ---- bounds of the model ----
MaxOps == 3              \* method calls started plus notifications dequeued over a run
MaxPriority == 2         \* largest priority value requested / echoed

\* the concurrent local callers
Threads == {1, 2}

\* ---- values ----
Nil == [nil |-> TRUE]                   \* a nil pointer / an absent argument

\* ConsumerScore, as the Go struct (fields Score, ProducerScore, ProducerScores)
ConsumerScore(s, ps, pss) == [Score |-> s, ProducerScore |-> ps, ProducerScores |-> pss]

\* ConsumerLayers, as the Go struct
ConsumerLayers(sl, tl) == [SpatialLayer |-> sl, TemporalLayer |-> tl]

\* newConsumer: the score used when params.score is nil
DefaultScore == ConsumerScore(10, 10, <<>>)

\* newConsumer: score := params.score; if nil, the default
InitialScore(param) == IF param = Nil THEN DefaultScore ELSE param

\* ---- JSON payloads on the wire ----
\* A payload is malformed bytes, the JSON null, or a JSON object (a function
\* from the keys present to their values).
Malformed == [json |-> "malformed", obj |-> <<>>]
JsonNull == [json |-> "null", obj |-> <<>>]
JsonObject(o) == [json |-> "object", obj |-> o]

ScoreObject == [score |-> 5, producerScore |-> 7, producerScores |-> <<7, 3>>]
LayersObject == [spatialLayer |-> 1, temporalLayer |-> 0]
TraceObject == [type |-> "rtp", timestamp |-> 1, direction |-> "out"]

\* value of key k of a JSON object, or the Go zero value z when k is absent
Field(o, k, z) == IF k \in DOMAIN o THEN o[k] ELSE z

\* json.Unmarshal(data, &score) with score a nil *ConsumerScore
UnmarshalScore(data) ==
    CASE data.json = "malformed" -> [err |-> TRUE, val |-> Nil]
      [] data.json = "null" -> [err |-> FALSE, val |-> Nil]
      [] OTHER -> [err |-> FALSE,
                   val |-> ConsumerScore(Field(data.obj, "score", 0),
                                         Field(data.obj, "producerScore", 0),
                                         Field(data.obj, "producerScores", <<>>))]

\* json.Unmarshal(data, &layers) with layers a nil *ConsumerLayers
UnmarshalLayers(data) ==
    CASE data.json = "malformed" -> [err |-> TRUE, val |-> Nil]
      [] data.json = "null" -> [err |-> FALSE, val |-> Nil]
      [] OTHER -> [err |-> FALSE,
                   val |-> ConsumerLayers(Field(data.obj, "spatialLayer", 0),
                                          Field(data.obj, "temporalLayer", 0))]

\* json.Unmarshal(data, &trace) with trace a nil *ConsumerTraceEventData
UnmarshalTrace(data) ==
    CASE data.json = "malformed" -> [err |-> TRUE, val |-> Nil]
      [] data.json = "null" -> [err |-> FALSE, val |-> Nil]
      [] OTHER -> [err |-> FALSE,
                   val |-> [Type |-> Field(data.obj, "type", ""),
                            Timestamp |-> Field(data.obj, "timestamp", 0),
                            Direction |-> Field(data.obj, "direction", "")]]

\* ---- notifications the worker can send ----
Notification(e, d) == [event |-> e, data |-> d]
None == Notification("", JsonNull)     \* no notification in delivery

ControlNotifications ==
    { Notification(e, JsonNull) :
        e \in {"producerclose", "producerpause", "producerresume", "unknown"} }
    \cup { Notification("score", d) : d \in {JsonObject(ScoreObject), Malformed} }
    \cup { Notification("layerschange", d) :
             d \in {JsonObject(LayersObject), JsonNull, Malformed} }
    \cup { Notification("trace", d) : d \in {JsonObject(TraceObject), Malformed} }

PayloadNotifications ==
    { Notification(e, JsonNull) : e \in {"rtp", "unknown"} }

VARIABLES
    closed,            \* consumer.closed (uint32 used as an atomic flag)
    paused,            \* consumer.paused
    producerPaused,    \* consumer.producerPaused
    priority,          \* consumer.priority
    score,             \* consumer.score
    preferredLayers,   \* consumer.preferredLayers
    currentLayers,     \* consumer.currentLayers
    chSubscribed,      \* control channel holds a handler for this consumer id
    pchSubscribed,     \* payload channel holds a handler for this consumer id
    chInflight,        \* control notification dequeued, its handler not yet run
    pchInflight,       \* payload notification dequeued, its handler not yet run
    pc,                \* per caller: where it is inside the method it called
    wasPaused,         \* per caller: the local wasPaused of Pause / Resume
    arg,               \* per caller: the argument of SetPriority / SetPreferredLayers
    effAtCall,         \* history: paused \/ producerPaused when the call began
    ops,               \* history: method calls started plus notifications dequeued
    log,               \* history: close-related effects, in order, with the trigger
    emitted,           \* history: what the last step emitted, in order
    last               \* history: the last step (operation, caller, return value)

fields == <<closed, paused, producerPaused, priority, score, preferredLayers, currentLayers>>
subs == <<chSubscribed, pchSubscribed>>
inflight == <<chInflight, pchInflight>>
locals == <<pc, wasPaused, arg, effAtCall>>
vars == <<fields, subs, inflight, locals, ops, log, emitted, last>>

\* ---- emissions ----
Ev(name, a) == [ev |-> name, arg |-> a]
E(name) == Ev(name, Nil)

\* effects of trigger `by`, for the log
Tag(by, names) == [i \in 1..Len(names) |-> [by |-> by, ev |-> names[i]]]

\* effects that deliver nothing to a listener or a callback
Silent == {"channel.Unsubscribe", "payloadChannel.Unsubscribe", "transport.closeConsumer",
           "RemoveAllListeners", "observer.RemoveAllListeners"}

\* the Emit / SafeEmit calls and callback invocations among `effects`, in order
Emissions(effects) ==
    LET s == SelectSeq(effects, LAMBDA e : e \notin Silent)
    IN [i \in 1..Len(s) |-> E(s[i])]

Step(op, t, ret) == [op |-> op, t |-> t, ret |-> ret]

\* Derived value of the data model: locallyPaused OR remotelyPaused
EffectivelyPaused == paused \/ producerPaused

\* ---- construction ----
\* newConsumer(params): the fields, then handleWorkerNotifications() subscribes
\* one handler on each channel.
Init ==
    /\ closed = 0
    /\ paused \in BOOLEAN
    /\ producerPaused \in BOOLEAN
    /\ priority = 1
    /\ score \in {InitialScore(p) : p \in {Nil, ConsumerScore(9, 8, <<8>>)}}
    /\ preferredLayers = Nil
    /\ currentLayers = Nil
    /\ chSubscribed = TRUE
    /\ pchSubscribed = TRUE
    /\ chInflight = None
    /\ pchInflight = None
    /\ pc = [t \in Threads |-> "idle"]
    /\ wasPaused = [t \in Threads |-> FALSE]
    /\ arg = [t \in Threads |-> Nil]
    /\ effAtCall = [t \in Threads |-> FALSE]
    /\ ops = 0
    /\ log = <<>>
    /\ emitted = <<>>
    /\ last = Step("new", 0, "none")

\* mutant: the flag is set without being compared
CompareAndSwapIgnoresFlag(flag) == TRUE

\* atomic.CompareAndSwapUint32(&consumer.closed, 0, 1): success iff the flag is 0
CompareAndSwapClosed(flag) == flag = 0

\* ---- Close ----
\* Close(): the compare-and-swap; a loser returns nil at once.
Close(t) ==
    /\ pc[t] = "idle"
    /\ ops < MaxOps
    /\ ops' = ops + 1
    /\ emitted' = <<>>
    /\ IF CompareAndSwapClosed(closed)
       THEN /\ closed' = 1
            /\ pc' = [pc EXCEPT ![t] = "Close:unsubscribe"]
            /\ last' = Step("Close", t, "none")
       ELSE /\ closed' = closed
            /\ pc' = pc
            /\ last' = Step("Close", t, "ok")
    /\ UNCHANGED <<paused, producerPaused, priority, score, preferredLayers, currentLayers,
                   subs, inflight, wasPaused, arg, effAtCall, log>>

\* mutant: the close request is sent before the subscriptions are removed
closeRequestBeforeUnsubscribe ==
    <<"transport.closeConsumer", "channel.Unsubscribe", "payloadChannel.Unsubscribe">>

\* Close(): channel.Unsubscribe, payloadChannel.Unsubscribe, then the request
closeRequestEffects ==
    <<"channel.Unsubscribe", "payloadChannel.Unsubscribe", "transport.closeConsumer">>

\* Close(): both Unsubscribe calls, then the "transport.closeConsumer" request is sent
CloseUnsubscribe(t) ==
    /\ pc[t] = "Close:unsubscribe"
    /\ chSubscribed' = FALSE
    /\ pchSubscribed' = FALSE
    /\ log' = log \o Tag("Close", closeRequestEffects)
    /\ pc' = [pc EXCEPT ![t] = "Close:request"]
    /\ emitted' = <<>>
    /\ last' = Step("Close:unsubscribe", t, "none")
    /\ UNCHANGED <<fields, inflight, wasPaused, arg, effAtCall, ops>>

\* close(): observer "close", the observer's listeners are removed, then the
\* onClose callback
closeEffects == <<"observer.close", "observer.RemoveAllListeners", "onClose">>

\* Close() after the response: "@close", the consumer's listeners are removed,
\* then close()
closeResponseEffects == <<"@close", "RemoveAllListeners">> \o closeEffects

\* what Close() returns once the response is in: err is the named result and is
\* assigned response.Err()
CloseResult(ok) == IF ok THEN "ok" ELSE "err"

\* Close(): the response arrives (ok or an error, which is logged), "@close" is
\* emitted, then close()
CloseResponse(t, ok) ==
    /\ pc[t] = "Close:request"
    /\ log' = log \o Tag("Close", closeResponseEffects)
    /\ emitted' = Emissions(closeResponseEffects)
    /\ pc' = [pc EXCEPT ![t] = "idle"]
    /\ last' = Step("Close:response", t, CloseResult(ok))
    /\ UNCHANGED <<fields, subs, inflight, wasPaused, arg, effAtCall, ops>>

\* ---- transportClosed ----
\* transportClosed(): the compare-and-swap; a loser returns at once
TransportClosed(t) ==
    /\ pc[t] = "idle"
    /\ ops < MaxOps
    /\ ops' = ops + 1
    /\ emitted' = <<>>
    /\ IF CompareAndSwapClosed(closed)
       THEN /\ closed' = 1
            /\ pc' = [pc EXCEPT ![t] = "transportClosed:unsubscribe"]
            /\ last' = Step("transportClosed", t, "none")
       ELSE /\ closed' = closed
            /\ pc' = pc
            /\ last' = Step("transportClosed", t, "ok")
    /\ UNCHANGED <<paused, producerPaused, priority, score, preferredLayers, currentLayers,
                   subs, inflight, wasPaused, arg, effAtCall, log>>

\* mutant: close() runs before the transport-close event
transportClosedCloseFirst ==
    <<"channel.Unsubscribe", "payloadChannel.Unsubscribe">> \o closeEffects
    \o <<"transportclose", "RemoveAllListeners", "onTransportClose">>

\* transportClosed() after the compare-and-swap: both Unsubscribe calls,
\* "transportclose", the consumer's listeners are removed, onTransportClose, close()
transportClosedEffects ==
    <<"channel.Unsubscribe", "payloadChannel.Unsubscribe",
      "transportclose", "RemoveAllListeners", "onTransportClose">> \o closeEffects

\* transportClosed(): both Unsubscribe calls, "transportclose", the
\* onTransportClose callback, then close()
TransportClosedFinish(t) ==
    /\ pc[t] = "transportClosed:unsubscribe"
    /\ chSubscribed' = FALSE
    /\ pchSubscribed' = FALSE
    /\ log' = log \o Tag("transportClosed", transportClosedEffects)
    /\ emitted' = Emissions(transportClosedEffects)
    /\ pc' = [pc EXCEPT ![t] = "idle"]
    /\ last' = Step("transportClosed:finish", t, "ok")
    /\ UNCHANGED <<fields, inflight, wasPaused, arg, effAtCall, ops>>

\* ---- Pause / Resume ----
\* mutant: wasPaused looks at the local flag only
WasPausedLocalOnly(p, pp) == p

\* wasPaused := consumer.paused || consumer.producerPaused
WasPaused(p, pp) == p \/ pp

\* mutant: observer "pause" on every successful Pause()
PauseEmitsAlways(was) == TRUE

\* Pause(): `if !wasPaused` guards observer "pause" and the onPause callback
PauseEmits(was) == ~was

\* Resume(): `if wasPaused && !consumer.producerPaused` guards observer "resume"
\* and the onResume callback
ResumeEmits(was, pp) == was /\ ~pp

pauseEvents == <<E("observer.pause"), E("onPause")>>
resumeEvents == <<E("observer.resume"), E("onResume")>>

\* Pause(): wasPaused is read, then the "consumer.pause" request is sent
Pause(t) ==
    /\ pc[t] = "idle"
    /\ ops < MaxOps
    /\ ops' = ops + 1
    /\ wasPaused' = [wasPaused EXCEPT ![t] = WasPaused(paused, producerPaused)]
    /\ effAtCall' = [effAtCall EXCEPT ![t] = EffectivelyPaused]
    /\ pc' = [pc EXCEPT ![t] = "Pause:request"]
    /\ emitted' = <<>>
    /\ last' = Step("Pause", t, "none")
    /\ UNCHANGED <<fields, subs, inflight, arg, log>>

\* mutant: consumer.paused written before the error check
PausedBeforeErrorCheck(ok, p) == TRUE

\* the new value of consumer.paused once the "consumer.pause" response is in
PausedAfterPause(ok, p) == IF ok THEN TRUE ELSE p

\* the new value of consumer.paused once the "consumer.resume" response is in
PausedAfterResume(ok, p) == IF ok THEN FALSE ELSE p

\* Pause(): the response arrives; an error is returned before any write
PauseResponse(t, ok) ==
    /\ pc[t] = "Pause:request"
    /\ paused' = PausedAfterPause(ok, paused)
    /\ emitted' = IF ok /\ PauseEmits(wasPaused[t]) THEN pauseEvents ELSE <<>>
    /\ last' = Step("Pause:response", t, IF ok THEN "ok" ELSE "err")
    /\ pc' = [pc EXCEPT ![t] = "idle"]
    /\ wasPaused' = [wasPaused EXCEPT ![t] = FALSE]
    /\ effAtCall' = [effAtCall EXCEPT ![t] = FALSE]
    /\ UNCHANGED <<closed, producerPaused, priority, score, preferredLayers, currentLayers,
                   subs, inflight, arg, ops, log>>

\* Resume(): wasPaused is read, then the "consumer.resume" request is sent
Resume(t) ==
    /\ pc[t] = "idle"
    /\ ops < MaxOps
    /\ ops' = ops + 1
    /\ wasPaused' = [wasPaused EXCEPT ![t] = WasPaused(paused, producerPaused)]
    /\ effAtCall' = [effAtCall EXCEPT ![t] = EffectivelyPaused]
    /\ pc' = [pc EXCEPT ![t] = "Resume:request"]
    /\ emitted' = <<>>
    /\ last' = Step("Resume", t, "none")
    /\ UNCHANGED <<fields, subs, inflight, arg, log>>

\* Resume(): the response arrives; an error is returned before any write;
\* consumer.producerPaused is read after the write of consumer.paused
ResumeResponse(t, ok) ==
    /\ pc[t] = "Resume:request"
    /\ paused' = PausedAfterResume(ok, paused)
    /\ emitted' = IF ok /\ ResumeEmits(wasPaused[t], producerPaused)
                  THEN resumeEvents ELSE <<>>
    /\ last' = Step("Resume:response", t, IF ok THEN "ok" ELSE "err")
    /\ pc' = [pc EXCEPT ![t] = "idle"]
    /\ wasPaused' = [wasPaused EXCEPT ![t] = FALSE]
    /\ effAtCall' = [effAtCall EXCEPT ![t] = FALSE]
    /\ UNCHANGED <<closed, producerPaused, priority, score, preferredLayers, currentLayers,
                   subs, inflight, arg, ops, log>>

\* ---- responses of the worker ----
\* A response is an error, or carries data: nothing, or a JSON payload.
Empty == [json |-> "empty", obj |-> <<>>]
Response(err, data) == [err |-> err, data |-> data]

\* a failed request: the transport failed or the worker answered with an error
ErrorResponse(reason) == Response(TRUE, [json |-> "error", obj |-> [reason |-> reason]])
ErrorResponses == {ErrorResponse(r) : r \in {"request failed", "worker error"}}

PriorityResponses ==
    ErrorResponses
    \cup {Response(FALSE, JsonObject([priority |-> p])) : p \in 1..MaxPriority}

LayersResponses ==
    ErrorResponses
    \cup {Response(FALSE, Empty), Response(FALSE, JsonObject(LayersObject))}

\* response.Unmarshal(&result), result a struct{Priority uint32}: the error of
\* the response, else the decoded data (nothing decoded from an empty body)
ResponseUnmarshalPriority(resp) ==
    IF resp.err THEN [err |-> TRUE, val |-> 0, error |-> resp.data.obj.reason]
    ELSE IF resp.data.json = "empty" THEN [err |-> FALSE, val |-> 0, error |-> ""]
    ELSE [err |-> FALSE, val |-> Field(resp.data.obj, "priority", 0), error |-> ""]

\* response.Unmarshal(&consumer.preferredLayers): as above, decoding into the
\* field, which keeps its value `cur` when nothing is decoded
ResponseUnmarshalLayers(resp, cur) ==
    IF resp.err THEN [err |-> TRUE, val |-> cur, error |-> resp.data.obj.reason]
    ELSE IF resp.data.json = "empty" THEN [err |-> FALSE, val |-> cur, error |-> ""]
    ELSE [err |-> FALSE, val |-> UnmarshalLayers(resp.data).val, error |-> ""]

\* the return of a method that decodes a response: err is what Unmarshal
\* returned; the step also records the response and the argument of the call
Returned(op, t, res, resp, requested) ==
    [op |-> op, t |-> t, ret |-> IF res.err THEN "err" ELSE "ok",
     error |-> res.error, resp |-> resp, requested |-> requested]

\* ---- SetPriority / UnsetPriority / SetPreferredLayers ----
\* the "consumer.setPriority" request is sent with the priority
SendSetPriority(t, p, op) ==
    /\ pc[t] = "idle"
    /\ ops < MaxOps
    /\ ops' = ops + 1
    /\ arg' = [arg EXCEPT ![t] = [priority |-> p]]
    /\ pc' = [pc EXCEPT ![t] = "SetPriority:request"]
    /\ emitted' = <<>>
    /\ last' = Step(op, t, "none")
    /\ UNCHANGED <<fields, subs, inflight, wasPaused, effAtCall, log>>

\* SetPriority(priority)
SetPriority(t, p) == SendSetPriority(t, p, "SetPriority")

\* UnsetPriority(): return consumer.SetPriority(1)
UnsetPriority(t) == SendSetPriority(t, 1, "UnsetPriority")

\* mutant: result.Priority is stored whatever Unmarshal returned
PriorityStoredOnError(res, cur) == res.val

\* the new value of consumer.priority given the decoded response
PriorityAfter(res, cur) == IF res.err THEN cur ELSE res.val

\* mutant: the requested priority is stored instead of the echoed one
SetPriorityStoresRequested(t, resp) ==
    /\ pc[t] = "SetPriority:request"
    /\ priority' = IF ResponseUnmarshalPriority(resp).err THEN priority
                   ELSE arg[t].priority
    /\ last' = Returned("SetPriority:response", t, ResponseUnmarshalPriority(resp),
                        resp, arg[t])
    /\ pc' = [pc EXCEPT ![t] = "idle"]
    /\ arg' = [arg EXCEPT ![t] = Nil]
    /\ emitted' = <<>>
    /\ UNCHANGED <<closed, paused, producerPaused, score, preferredLayers, currentLayers,
                   subs, inflight, wasPaused, effAtCall, ops, log>>

\* SetPriority(): the response arrives and is decoded; an error is returned
\* before the write
SetPriorityResponse(t, resp) ==
    /\ pc[t] = "SetPriority:request"
    /\ priority' = PriorityAfter(ResponseUnmarshalPriority(resp), priority)
    /\ last' = Returned("SetPriority:response", t, ResponseUnmarshalPriority(resp),
                        resp, arg[t])
    /\ pc' = [pc EXCEPT ![t] = "idle"]
    /\ arg' = [arg EXCEPT ![t] = Nil]
    /\ emitted' = <<>>
    /\ UNCHANGED <<closed, paused, producerPaused, score, preferredLayers, currentLayers,
                   subs, inflight, wasPaused, effAtCall, ops, log>>

\* SetPreferredLayers(layers): the "consumer.setPreferredLayers" request is sent
SetPreferredLayers(t, layers) ==
    /\ pc[t] = "idle"
    /\ ops < MaxOps
    /\ ops' = ops + 1
    /\ arg' = [arg EXCEPT ![t] = layers]
    /\ pc' = [pc EXCEPT ![t] = "SetPreferredLayers:request"]
    /\ emitted' = <<>>
    /\ last' = Step("SetPreferredLayers", t, "none")
    /\ UNCHANGED <<fields, subs, inflight, wasPaused, effAtCall, log>>

\* SetPreferredLayers(): the response arrives and is decoded into the field
SetPreferredLayersResponse(t, resp) ==
    /\ pc[t] = "SetPreferredLayers:request"
    /\ preferredLayers' = ResponseUnmarshalLayers(resp, preferredLayers).val
    /\ last' = Returned("SetPreferredLayers:response", t,
                        ResponseUnmarshalLayers(resp, preferredLayers), resp, arg[t])
    /\ pc' = [pc EXCEPT ![t] = "idle"]
    /\ arg' = [arg EXCEPT ![t] = Nil]
    /\ emitted' = <<>>
    /\ UNCHANGED <<closed, paused, producerPaused, priority, score, currentLayers,
                   subs, inflight, wasPaused, effAtCall, ops, log>>

\* ---- the channels ----
\* The control channel dequeues a notification for this consumer id and picks
\* the handler subscribed under it; the handler runs in a later step.
ChannelDispatch(n) ==
    /\ chSubscribed
    /\ chInflight = None
    /\ ops < MaxOps
    /\ ops' = ops + 1
    /\ chInflight' = n
    /\ emitted' = <<>>
    /\ last' = Step("channel:dequeue", 0, "none")
    /\ UNCHANGED <<fields, subs, pchInflight, locals, log>>

\* The payload channel does the same with a payload notification.
PayloadChannelDispatch(n) ==
    /\ pchSubscribed
    /\ pchInflight = None
    /\ ops < MaxOps
    /\ ops' = ops + 1
    /\ pchInflight' = n
    /\ emitted' = <<>>
    /\ last' = Step("payloadChannel:dequeue", 0, "none")
    /\ UNCHANGED <<fields, subs, chInflight, locals, log>>

\* ---- control channel handler ----
\* what every case of the handler does on return: the notification is consumed
Handled(event) ==
    /\ chInflight' = None
    /\ last' = Step("on:" \o event, 0, "none")
    /\ UNCHANGED <<pchInflight, locals, ops>>

\* mutant: the producerclose case sends the close request, as Close() does
producerCloseWithRequest ==
    <<"channel.Unsubscribe", "payloadChannel.Unsubscribe", "transport.closeConsumer",
      "@producerclose", "producerclose", "RemoveAllListeners", "onProducerClose">>
    \o closeEffects

\* case "producerclose" after the compare-and-swap: both Unsubscribe calls,
\* "@producerclose", "producerclose", the consumer's listeners are removed,
\* onProducerClose, close()
producerCloseEffects ==
    <<"channel.Unsubscribe", "payloadChannel.Unsubscribe",
      "@producerclose", "producerclose", "RemoveAllListeners", "onProducerClose">>
    \o closeEffects

\* mutant: the producerclose case leaves the payload channel subscription in place
OnProducerCloseKeepsPayloadSubscription ==
    /\ chInflight.event = "producerclose"
    /\ IF CompareAndSwapClosed(closed)
       THEN /\ closed' = 1
            /\ chSubscribed' = FALSE
            /\ pchSubscribed' = pchSubscribed
            /\ log' = log \o Tag("producerclose", producerCloseEffects)
            /\ emitted' = Emissions(producerCloseEffects)
       ELSE /\ UNCHANGED <<closed, subs, log>>
            /\ emitted' = <<>>
    /\ Handled("producerclose")
    /\ UNCHANGED <<paused, producerPaused, priority, score, preferredLayers, currentLayers>>

\* case "producerclose": the compare-and-swap, both Unsubscribe calls,
\* "@producerclose", "producerclose", the onProducerClose callback, close()
OnProducerClose ==
    /\ chInflight.event = "producerclose"
    /\ IF CompareAndSwapClosed(closed)
       THEN /\ closed' = 1
            /\ chSubscribed' = FALSE
            /\ pchSubscribed' = FALSE
            /\ log' = log \o Tag("producerclose", producerCloseEffects)
            /\ emitted' = Emissions(producerCloseEffects)
       ELSE /\ UNCHANGED <<closed, subs, log>>
            /\ emitted' = <<>>
    /\ Handled("producerclose")
    /\ UNCHANGED <<paused, producerPaused, priority, score, preferredLayers, currentLayers>>

\* mutant: no guard against a redelivered producerpause
ProducerPauseUnguarded(pp) == TRUE

\* case "producerpause": `if consumer.producerPaused { break }`
ProducerPauseProceeds(pp) == ~pp

\* case "producerpause": `if !wasPaused` guards observer "pause" and onPause
ProducerPauseEmitsPause(was) == ~was

\* case "producerpause"
OnProducerPause ==
    /\ chInflight.event = "producerpause"
    /\ IF ProducerPauseProceeds(producerPaused)
       THEN /\ producerPaused' = TRUE
            /\ emitted' = <<E("producerpause"), E("onProducerPause")>>
                  \o (IF ProducerPauseEmitsPause(WasPaused(paused, producerPaused))
                      THEN pauseEvents ELSE <<>>)
       ELSE /\ producerPaused' = producerPaused
            /\ emitted' = <<>>
    /\ Handled("producerpause")
    /\ UNCHANGED <<closed, paused, priority, score, preferredLayers, currentLayers,
                   subs, log>>

\* case "producerresume": `if !consumer.producerPaused { break }`
ProducerResumeProceeds(pp) == pp

\* mutant: observer "resume" without looking at consumer.paused
ProducerResumeIgnoresPaused(was, p) == was

\* case "producerresume": `if wasPaused && !consumer.paused` guards observer
\* "resume" and onResume
ProducerResumeEmitsResume(was, p) == was /\ ~p

\* mutant: the producerresume case clears consumer.paused as well
OnProducerResumeClearsPaused ==
    /\ chInflight.event = "producerresume"
    /\ IF ProducerResumeProceeds(producerPaused)
       THEN /\ producerPaused' = FALSE
            /\ paused' = FALSE
            /\ emitted' = <<E("producerresume"), E("onProducerResume")>>
                  \o (IF ProducerResumeEmitsResume(WasPaused(paused, producerPaused), paused)
                      THEN resumeEvents ELSE <<>>)
       ELSE /\ UNCHANGED <<producerPaused, paused>>
            /\ emitted' = <<>>
    /\ Handled("producerresume")
    /\ UNCHANGED <<closed, priority, score, preferredLayers, currentLayers, subs, log>>

\* case "producerresume"
OnProducerResume ==
    /\ chInflight.event = "producerresume"
    /\ IF ProducerResumeProceeds(producerPaused)
       THEN /\ producerPaused' = FALSE
            /\ emitted' = <<E("producerresume"), E("onProducerResume")>>
                  \o (IF ProducerResumeEmitsResume(WasPaused(paused, producerPaused), paused)
                      THEN resumeEvents ELSE <<>>)
       ELSE /\ producerPaused' = producerPaused
            /\ emitted' = <<>>
    /\ Handled("producerresume")
    /\ UNCHANGED <<closed, paused, priority, score, preferredLayers, currentLayers,
                   subs, log>>

\* mutant: a decode error is logged but the case goes on
DecodeErrorIgnored(res) == FALSE

\* cases "score", "layerschange", "trace": `if err := json.Unmarshal(...); err != nil
\* { ...; return }`
DecodeAborts(res) == res.err

\* mutant: the decoded score is merged into the stored one, whose
\* ProducerScores are kept
ScoreMerged(res, cur) == [res.val EXCEPT !.ProducerScores = cur.ProducerScores]

\* case "score": consumer.score = score, the freshly decoded pointer
ScoreAfter(res, cur) == res.val

\* case "score": decode, return on error; else store and emit
OnScore ==
    /\ chInflight.event = "score"
    /\ LET res == UnmarshalScore(chInflight.data) IN
       IF DecodeAborts(res)
       THEN /\ score' = score
            /\ emitted' = <<>>
       ELSE /\ score' = ScoreAfter(res, score)
            /\ emitted' = <<Ev("score", res.val), Ev("observer.score", res.val),
                            Ev("onScore", res.val)>>
    /\ Handled("score")
    /\ UNCHANGED <<closed, paused, producerPaused, priority, preferredLayers, currentLayers,
                   subs, log>>

\* case "layerschange": decode, return on error; else store and emit
OnLayersChange ==
    /\ chInflight.event = "layerschange"
    /\ LET res == UnmarshalLayers(chInflight.data) IN
       IF DecodeAborts(res)
       THEN /\ currentLayers' = currentLayers
            /\ emitted' = <<>>
       ELSE /\ currentLayers' = res.val
            /\ emitted' = <<Ev("layerschange", res.val), Ev("observer.layerschange", res.val),
                            Ev("onLayersChange", res.val)>>
    /\ Handled("layerschange")
    /\ UNCHANGED <<closed, paused, producerPaused, priority, score, preferredLayers,
                   subs, log>>

\* case "trace": decode, return on error; else emit
OnTrace ==
    /\ chInflight.event = "trace"
    /\ LET res == UnmarshalTrace(chInflight.data) IN
       emitted' = IF DecodeAborts(res) THEN <<>>
                  ELSE <<Ev("trace", res.val), Ev("observer.trace", res.val),
                         Ev("onTrace", res.val)>>
    /\ Handled("trace")
    /\ UNCHANGED <<fields, subs, log>>

\* mutant: the unknown event ends the subscription, so nothing is dispatched
\* after it
OnUnknownStopsDispatch ==
    /\ chInflight # None
    /\ chInflight.event \notin {"producerclose", "producerpause", "producerresume",
                                "score", "layerschange", "trace"}
    /\ emitted' = <<>>
    /\ chSubscribed' = FALSE
    /\ Handled("unknown")
    /\ UNCHANGED <<fields, pchSubscribed, log>>

\* default: the unknown event is logged
OnUnknown ==
    /\ chInflight # None
    /\ chInflight.event \notin {"producerclose", "producerpause", "producerresume",
                                "score", "layerschange", "trace"}
    /\ emitted' = <<>>
    /\ Handled("unknown")
    /\ UNCHANGED <<fields, subs, log>>

\* ---- payload channel handler ----
\* Closed(): atomic.LoadUint32(&consumer.closed) > 0
Closed(flag) == flag > 0

\* mutant: no closed check in the payload handler
RtpNeverDropped(flag) == FALSE

\* case "rtp": `if consumer.Closed() { return }`
RtpDropped(flag) == Closed(flag)

\* case "rtp": drop when closed, else "rtp" and the onRtp callback
OnRtp ==
    /\ pchInflight.event = "rtp"
    /\ emitted' = IF RtpDropped(closed) THEN <<>> ELSE <<E("rtp"), E("onRtp")>>
    /\ pchInflight' = None
    /\ last' = Step("on:rtp", 0, "none")
    /\ UNCHANGED <<fields, subs, chInflight, locals, ops, log>>

\* default: the unknown payload event is logged
OnUnknownPayload ==
    /\ pchInflight # None
    /\ pchInflight.event # "rtp"
    /\ emitted' = <<>>
    /\ pchInflight' = None
    /\ last' = Step("on:unknownPayload", 0, "none")
    /\ UNCHANGED <<fields, subs, chInflight, locals, ops, log>>

\* ---- helpers of the properties ----
Emits(name) == \E i \in 1..Len(emitted) : emitted[i].ev = name
EmitsPause == Emits("observer.pause")
EmitsResume == Emits("observer.resume")
CountLog(names) == Cardinality({i \in 1..Len(log) : log[i].ev \in names})
CauseEvents == {"@close", "transportclose", "producerclose"}
AllIdle == \A t \in Threads : pc[t] = "idle"
CloseSequence ==
    Tag("Close", <<"channel.Unsubscribe", "payloadChannel.Unsubscribe",
                   "transport.closeConsumer", "@close", "RemoveAllListeners",
                   "observer.close", "observer.RemoveAllListeners", "onClose">>)
TransportClosedSequence ==
    Tag("transportClosed", <<"channel.Unsubscribe", "payloadChannel.Unsubscribe",
                             "transportclose", "RemoveAllListeners", "onTransportClose",
                             "observer.close", "observer.RemoveAllListeners", "onClose">>)
ProducerCloseSequence ==
    Tag("producerclose", <<"channel.Unsubscribe", "payloadChannel.Unsubscribe",
                           "@producerclose", "producerclose", "RemoveAllListeners",
                           "onProducerClose", "observer.close",
                           "observer.RemoveAllListeners", "onClose">>)

\* names of what the last step emitted, in order
EmittedNames == [i \in 1..Len(emitted) |-> emitted[i].ev]

\* the positions of effect e in the log
Positions(e) == {i \in 1..Len(log) : log[i].ev = e}

\* effect a is in the log and every occurrence of b comes after it
Before(a, b) ==
    /\ Positions(a) # {}
    /\ \A i \in Positions(a), j \in Positions(b) : i < j

\* ---- C1 ----
OneTrigger ==
    /\ closed \in {0, 1}
    /\ (log # <<>> => closed = 1)
    /\ \A i, j \in 1..Len(log) : log[i].by = log[j].by
    /\ CountLog({"observer.close"}) <= 1
    /\ CountLog({"onClose"}) <= 1
    /\ CountLog(CauseEvents) <= 1
    /\ CountLog({"channel.Unsubscribe"}) <= 1
    /\ CountLog({"payloadChannel.Unsubscribe"}) <= 1

\* C1: under every interleaving of Close(), transportClosed() and producerclose
\* notifications the closed flag goes 0 -> 1 once and never back, only one
\* trigger runs side effects, and observer "close", onClose and the cause
\* events {@close, transportclose, producerclose} each happen at most once
\* (at most one cause event in all).
C1_ClosedExactlyOnce == [][(closed = 1 => closed' = 1) /\ OneTrigger']_vars

\* C1 witness: a producerclose handler ran and lost against a Close() that had
\* won and has finished.
C1_Witness ==
    /\ last.op = "on:producerclose"
    /\ emitted = <<>>
    /\ log = CloseSequence

\* ---- C2 ----
\* C2: a Close() or transportClosed() call made when the flag is already set
\* returns success and changes nothing (no request, no Unsubscribe, no event);
\* once the winning call has returned, the log holds exactly its one sequence
\* (with one "transport.closeConsumer" request for Close, none for
\* transportClosed).
C2_CloseIdempotent ==
    [][ /\ (last'.op \in {"Close", "transportClosed"} /\ closed = 1)
           => (/\ last'.ret = "ok"
               /\ emitted' = <<>>
               /\ UNCHANGED <<fields, subs, inflight, locals, log>>)
        /\ (AllIdle' /\ log' # <<>> /\ log'[1].by = "Close") => log' = CloseSequence
        /\ (AllIdle' /\ log' # <<>> /\ log'[1].by = "transportClosed")
           => log' = TransportClosedSequence
        /\ (CountLog({"transport.closeConsumer"}) <= 1)' ]_vars

\* C2 witness: a Close() call returned success as a no-op after an earlier
\* Close() had completed all of its side effects.
C2_Witness ==
    /\ last.op = "Close"
    /\ last.ret = "ok"
    /\ AllIdle
    /\ log = CloseSequence

\* ---- C3 ----
\* C3: under concurrent Pause/Resume calls and producerpause/producerresume
\* notifications, observer "pause" is emitted exactly by the steps that take
\* effectivelyPaused from false to true and observer "resume" exactly by those
\* that take it from true to false (no duplicate, no missed transition).
C3_TransitionOnly ==
    [][ /\ EmitsPause' <=> (~EffectivelyPaused /\ EffectivelyPaused')
        /\ EmitsResume' <=> (EffectivelyPaused /\ ~EffectivelyPaused') ]_vars

\* ---- C4 ----
\* C4: a successful Pause() sets paused and emits observer "pause" only if
\* paused \/ producerPaused was false when it was called; a successful Resume()
\* clears paused and emits observer "resume" only if paused \/ producerPaused
\* was true when it was called and producerPaused is false afterwards.
C4_LocalPauseResume ==
    [][ /\ (last'.op = "Pause:response" /\ last'.ret = "ok")
           => (/\ paused' = TRUE
               /\ EmitsPause' => ~effAtCall[last'.t]
               /\ ~EmitsResume')
        /\ (last'.op = "Resume:response" /\ last'.ret = "ok")
           => (/\ paused' = FALSE
               /\ EmitsResume' => (effAtCall[last'.t] /\ ~producerPaused')
               /\ ~EmitsPause') ]_vars

\* C4 witness: a successful Resume() emitted nothing because the producer is
\* still paused.
C4_Witness ==
    /\ last.op = "Resume:response"
    /\ last.ret = "ok"
    /\ producerPaused
    /\ ~paused
    /\ emitted = <<>>

\* ---- C5 ----
\* C5: producerpause handled while producerPaused is false sets it, emits
\* "producerpause", and emits observer "pause" exactly when paused was false;
\* producerresume handled while producerPaused is true clears it, emits
\* "producerresume", and emits observer "resume" exactly when paused is false.
C5_RemotePauseResume ==
    [][ /\ (last'.op = "on:producerpause" /\ ~producerPaused)
           => (/\ producerPaused' = TRUE
               /\ Emits("producerpause")'
               /\ EmitsPause' <=> ~paused)
        /\ (last'.op = "on:producerresume" /\ producerPaused)
           => (/\ producerPaused' = FALSE
               /\ Emits("producerresume")'
               /\ EmitsResume' <=> ~paused') ]_vars

\* C5 witness: a producerresume was handled while the consumer is locally
\* paused: "producerresume" went out, observer "resume" did not.
C5_Witness ==
    /\ last.op = "on:producerresume"
    /\ Emits("producerresume")
    /\ ~EmitsResume
    /\ paused
    /\ ~producerPaused

\* ---- C6 ----
\* C6: a producerpause handled while producerPaused is already true, and a
\* producerresume handled while it is already false, change no state and emit
\* nothing.
C6_RedeliveryNoOp ==
    [][ ( \/ (last'.op = "on:producerpause" /\ producerPaused)
          \/ (last'.op = "on:producerresume" /\ ~producerPaused) )
        => (emitted' = <<>> /\ UNCHANGED <<fields, subs, locals, log>>) ]_vars

\* C6 witness: a producerpause was handled as a no-op on a consumer whose
\* producer was already paused by an earlier notification.
C6_Witness ==
    /\ last.op = "on:producerpause"
    /\ emitted = <<>>
    /\ producerPaused
    /\ ops >= 2

\* ---- C7 ----
\* C7: when the request of Pause() or Resume() fails the call returns the
\* error, no field changes and nothing is emitted.
C7_FailedPauseResume ==
    [][ (last'.op \in {"Pause:response", "Resume:response"} /\ last'.ret = "err")
        => (emitted' = <<>> /\ UNCHANGED <<fields, subs, log>>) ]_vars

\* C7 witness: a Pause() failed on a consumer that was not paused.
C7_Witness ==
    /\ last.op = "Pause:response"
    /\ last.ret = "err"
    /\ ~paused

\* ---- C8 ----
\* C8: whatever the outcome of the "transport.closeConsumer" request, the
\* Close() that sent it returns success, the consumer is closed and "@close"
\* and observer "close" are emitted.
C8_CloseFailureNotPropagated ==
    [][ last'.op = "Close:response"
        => (/\ last'.ret = "ok"
            /\ closed' = 1
            /\ Emits("@close")'
            /\ Emits("observer.close")') ]_vars

\* ---- C9 ----
\* C9: once the closed flag is set no step changes producerPaused, score or
\* currentLayers.
C9_NoMutationAfterClose ==
    [][ closed = 1 => UNCHANGED <<producerPaused, score, currentLayers>> ]_vars

\* ---- C10 ----
\* C10: an "rtp" payload whose handler runs when the consumer is closed emits
\* nothing: no "rtp", no onRtp.
C10_RtpDroppedAfterClose ==
    [][ (last'.op = "on:rtp" /\ closed = 1) => emitted' = <<>> ]_vars

\* C10 witness: an "rtp" payload dequeued before Unsubscribe was handled after
\* the close and dropped.
C10_Witness ==
    /\ last.op = "on:rtp"
    /\ closed = 1
    /\ ~pchSubscribed
    /\ emitted = <<>>

\* ---- C11 ----
\* C11: a producerclose notification handled while the consumer is open sets
\* the closed flag, sends no request, calls Unsubscribe once on each channel,
\* emits "@producerclose" and "producerclose" (and calls onProducerClose)
\* before the close finalization (observer "close", onClose), and that is all
\* the producerclose trigger ever does.
C11_ProducerClose ==
    [][ /\ (last'.op = "on:producerclose" /\ closed = 0)
           => (/\ closed' = 1
               /\ ~chSubscribed' /\ ~pchSubscribed'
               /\ (CountLog({"channel.Unsubscribe"}) = 1)'
               /\ (CountLog({"payloadChannel.Unsubscribe"}) = 1)'
               /\ (CountLog({"transport.closeConsumer"}) = 0)'
               /\ Before("@producerclose", "observer.close")'
               /\ Before("producerclose", "observer.close")'
               /\ Before("onProducerClose", "observer.close")'
               /\ Before("observer.close", "onClose")'
               /\ EmittedNames' = <<"@producerclose", "producerclose", "onProducerClose",
                                    "observer.close", "onClose">>)
        /\ (log' # <<>> /\ log'[1].by = "producerclose") => log' = ProducerCloseSequence
      ]_vars

\* C11 witness: a producerclose notification closed the consumer.
C11_Witness ==
    /\ last.op = "on:producerclose"
    /\ closed = 1
    /\ Emits("producerclose")
    /\ log = ProducerCloseSequence

\* ---- C12 ----
\* C12: the transportClosed() that wins sends no request and emits
\* "transportclose" and calls onTransportClose before the close finalization
\* (observer "close", onClose).
C12_TransportClosed ==
    [][ /\ last'.op = "transportClosed:finish"
           => (/\ (CountLog({"transport.closeConsumer"}) = 0)'
               /\ Before("transportclose", "observer.close")'
               /\ Before("onTransportClose", "observer.close")'
               /\ Before("transportclose", "onClose")'
               /\ Before("onTransportClose", "onClose")'
               /\ EmittedNames' = <<"transportclose", "onTransportClose",
                                    "observer.close", "onClose">>)
        /\ (log' # <<>> /\ log'[1].by = "transportClosed")
           => (CountLog({"transport.closeConsumer"}) = 0)'
      ]_vars

\* C12 witness: transportClosed() closed the consumer and returned.
C12_Witness ==
    /\ last.op = "transportClosed:finish"
    /\ closed = 1
    /\ Emits("transportclose")
    /\ log = TransportClosedSequence

\* ---- C15 ----
InClose == \E t \in Threads : pc[t] \in {"Close:unsubscribe", "Close:request"}

\* the effects of Close() other than the release of listeners, in the order of
\* the code
CloseSteps ==
    <<"channel.Unsubscribe", "payloadChannel.Unsubscribe", "transport.closeConsumer",
      "@close", "observer.close", "onClose">>

ListenerReleases == {"RemoveAllListeners", "observer.RemoveAllListeners"}

\* the part of the order of the first Close() that does not involve listeners:
\* flag, both Unsubscribe calls, request, "@close", observer "close", onClose.
\* The flag is set before anything is logged, the logged effects other than
\* listener releases follow CloseSteps, and all of them have happened once the
\* call has returned.
CloseOrder ==
    /\ InClose => closed = 1
    /\ (\E t \in Threads : pc[t] = "Close:unsubscribe") => log = <<>>
    /\ (log # <<>> /\ log[1].by = "Close")
       => LET done == SelectSeq(log, LAMBDA x : x.ev \notin ListenerReleases) IN
          /\ closed = 1
          /\ Len(done) \in 1..Len(CloseSteps)
          /\ \A i \in 1..Len(done) : done[i].ev = CloseSteps[i]
          /\ ~InClose => Len(done) = Len(CloseSteps)

\* C15 as stated: the first Close() sets the flag, unsubscribes from both
\* channels, sends the request, emits "@close", emits observer "close", and
\* releases the listeners at the end, that is after observer "close".
C15_ListenersReleasedLast ==
    [][ CloseOrder'
        /\ (last'.op = "Close:response"
            => (/\ Before("observer.close", "RemoveAllListeners")'
                /\ Before("observer.close", "observer.RemoveAllListeners")')) ]_vars

\* C15 amended: the first Close() sets the flag, unsubscribes from the control
\* and the payload channel, sends the request, emits "@close", releases the
\* consumer's listeners, emits observer "close", releases the observer's
\* listeners, calls onClose.
C15_CloseOrder ==
    [][ CloseOrder'
        /\ (last'.op = "Close:response"
            => (/\ log' = CloseSequence
                /\ Before("@close", "RemoveAllListeners")'
                /\ Before("RemoveAllListeners", "observer.close")'
                /\ Before("observer.close", "observer.RemoveAllListeners")'
                /\ Before("observer.RemoveAllListeners", "onClose")')) ]_vars

\* C15 witness: the first Close() has run to its end.
C15_Witness ==
    /\ last.op = "Close:response"
    /\ closed = 1
    /\ log = CloseSequence

C14_UnknownIgnored ==
    /\ [][ last'.op = "on:unknown"
           => (/\ emitted' = <<>>
               /\ chInflight' = None
               /\ UNCHANGED <<fields, subs, locals, log, pchInflight>>) ]_vars
    /\ []((last.op = "on:unknown" /\ chSubscribed /\ ops < MaxOps)
          => ENABLED (\E n \in ControlNotifications : ChannelDispatch(n)))

\* C14 witness: an unknown event was handled and the channel can dispatch again.
C14_Witness ==
    /\ last.op = "on:unknown"
    /\ emitted = <<>>
    /\ chSubscribed
    /\ chInflight = None
    /\ ops < MaxOps

\* ---- C17 ----
\* C17: a score, layerschange or trace notification whose payload does not
\* decode changes no field (score and currentLayers among them), emits nothing
\* and calls no callback, and the channel goes on dispatching.
C17_DecodeErrorAborts ==
    [][ (/\ last'.op \in {"on:score", "on:layerschange", "on:trace"}
         /\ chInflight.data.json = "malformed")
        => (/\ emitted' = <<>>
            /\ chInflight' = None
            /\ UNCHANGED <<fields, subs, locals, log, pchInflight>>) ]_vars

\* C17 witness: a malformed layerschange was handled after a layerschange that
\* had set currentLayers, which is still there.
C17_Witness ==
    /\ last.op = "on:layerschange"
    /\ emitted = <<>>
    /\ currentLayers = ConsumerLayers(1, 0)
    /\ chSubscribed

\* ---- C18 ----
\* C18: priority is an integer >= 1 in every state and 1 after construction;
\* only a SetPriority / UnsetPriority call that returns nil changes it, and
\* then to the priority echoed in the response; UnsetPriority sends the same
\* request as SetPriority(1).
C18_Priority ==
    /\ [](priority \in Nat /\ priority >= 1 /\ (ops = 0 => priority = 1))
    /\ [][ /\ priority' # priority
              => (last'.op = "SetPriority:response" /\ last'.ret = "ok")
           /\ (last'.op = "SetPriority:response" /\ last'.ret = "ok")
              => priority' = last'.resp.data.obj.priority
           /\ last'.op = "UnsetPriority"
              => (/\ arg'[last'.t] = [priority |-> 1]
                  /\ pc'[last'.t] = "SetPriority:request"
                  /\ UNCHANGED fields) ]_vars

\* C18 witness: SetPriority(1) returned nil and the stored priority is the 2
\* the worker echoed.
C18_Witness ==
    /\ last.op = "SetPriority:response"
    /\ last.ret = "ok"
    /\ last.requested = [priority |-> 1]
    /\ priority = 2

\* ---- C19 ----
\* C19: when the response to SetPriority or SetPreferredLayers is an error, the
\* call returns that error and priority and preferredLayers (and every other
\* field) keep their values.
C19_FailedSetters ==
    [][ (/\ last'.op \in {"SetPriority:response", "SetPreferredLayers:response"}
         /\ last'.resp.err)
        => (/\ last'.ret = "err"
            /\ last'.error = last'.resp.data.obj.reason
            /\ UNCHANGED <<fields, subs, log>>) ]_vars

\* C19 witness: a SetPriority failed after an earlier one had set priority 2,
\* which is still stored.
C19_Witness ==
    /\ last.op = "SetPriority:response"
    /\ last.ret = "err"
    /\ last.error = "worker error"
    /\ priority = 2

\* ---- C16 ----
\* C16: when operations run one at a time, the steps that emit observer
\* "pause" are exactly those that take paused \/ producerPaused from false to
\* true, and the steps that emit observer "resume" exactly those that take it
\* from true to false, whatever the initial flags and whether requests succeed
\* or fail; two pauses are therefore separated by a resume and conversely.
C16_SequentialTransitions ==
    [][ /\ EmitsPause' <=> (~EffectivelyPaused /\ EffectivelyPaused')
        /\ EmitsResume' <=> (EffectivelyPaused /\ ~EffectivelyPaused')
        /\ ~(EmitsPause' /\ EmitsResume')
        /\ EmitsPause' => Emits("onPause")'
        /\ EmitsResume' => Emits("onResume")' ]_vars

\* C16 witness: a Resume() that ran alone took the consumer out of the paused
\* state and emitted observer "resume".
C16_Witness ==
    /\ last.op = "Resume:response"
    /\ EmitsResume
    /\ ~EffectivelyPaused
    /\ ops >= 2

\* ---- C20 ----
\* C20: Pause / Resume leave producerPaused, score and currentLayers alone;
\* producerpause / producerresume leave paused alone; only a layerschange
\* notification changes currentLayers (also to nil) and only the response to
\* SetPreferredLayers changes preferredLayers; score, layerschange and trace
\* notifications leave paused, producerPaused and closed alone.
C20_SingleWriter ==
    [][ /\ last'.op \in {"Pause", "Pause:response", "Resume", "Resume:response"}
           => UNCHANGED <<producerPaused, score, currentLayers>>
        /\ last'.op \in {"on:producerpause", "on:producerresume"}
           => UNCHANGED paused
        /\ currentLayers' # currentLayers => last'.op = "on:layerschange"
        /\ preferredLayers' # preferredLayers => last'.op = "SetPreferredLayers:response"
        /\ last'.op \in {"on:score", "on:layerschange", "on:trace"}
           => UNCHANGED <<paused, producerPaused, closed>>
        /\ paused' # paused => last'.op \in {"Pause:response", "Resume:response"}
        /\ producerPaused' # producerPaused
           => last'.op \in {"on:producerpause", "on:producerresume"}
        /\ score' # score => last'.op = "on:score" ]_vars

\* C20 witness: a layerschange with a null payload made currentLayers absent
\* while the consumer stays locally paused.
C20_Witness ==
    /\ last.op = "on:layerschange"
    /\ Emits("layerschange")
    /\ currentLayers = Nil
    /\ paused
    /\ ops >= 2

\* ---- C21 ----
CloseRelated == {"@close", "transportclose", "@producerclose", "producerclose",
                 "observer.close"}

\* a winning Close() or transportClosed() stands between its compare-and-swap
\* and its Unsubscribe calls
Unsubscribing ==
    \E t \in Threads : pc[t] \in {"Close:unsubscribe", "transportClosed:unsubscribe"}

\* the last step emitted a close-related event
EmitsCloseRelated == \E i \in 1..Len(emitted) : emitted[i].ev \in CloseRelated

\* C21: both subscriptions made at construction are held as long as no close
\* trigger has won, a removed subscription never comes back, and both are gone
\* once the winning trigger is past its Unsubscribe calls; for each of the three
\* triggers the flag is set and channel.Unsubscribe, payloadChannel.Unsubscribe
\* are the first two effects, so that every close-related event ("@close",
\* "transportclose", "@producerclose", "producerclose", observer "close") comes
\* after them (it is logged at a position past the second) and is emitted in a
\* state where Closed() is true and neither channel holds a subscription.
C21_Subscriptions ==
    [][ /\ closed' = 0 => (chSubscribed' /\ pchSubscribed')
        /\ ~chSubscribed => ~chSubscribed'
        /\ ~pchSubscribed => ~pchSubscribed'
        /\ (closed' = 1 /\ ~Unsubscribing') => (~chSubscribed' /\ ~pchSubscribed')
        /\ Unsubscribing' => (closed' = 1 /\ log' = <<>>)
        /\ log' # <<>>
           => (/\ closed' = 1
               /\ Len(log') >= 2
               /\ log'[1].ev = "channel.Unsubscribe"
               /\ log'[2].ev = "payloadChannel.Unsubscribe")
        /\ EmitsCloseRelated'
           => (/\ Closed(closed')
               /\ ~chSubscribed'
               /\ ~pchSubscribed'
               /\ \A i \in 1..Len(emitted') :
                    emitted'[i].ev \in CloseRelated
                    => \E j \in 3..Len(log') : log'[j].ev = emitted'[i].ev) ]_vars

\* C21 witness: Close() won, a notification was dequeued before its Unsubscribe
\* calls and is still to be handled, and "@close" has been emitted with the flag
\* set and both subscriptions gone.
C21_Witness ==
    /\ last.op = "Close:response"
    /\ Emits("@close")
    /\ Emits("observer.close")
    /\ closed = 1
    /\ ~chSubscribed
    /\ ~pchSubscribed
    /\ chInflight # None

Next ==
    \/ \E t \in Threads : Close(t)
    \/ \E t \in Threads : CloseUnsubscribe(t)
    \/ \E t \in Threads, ok \in BOOLEAN : CloseResponse(t, ok)
    \/ \E t \in Threads : TransportClosed(t)
    \/ \E t \in Threads : TransportClosedFinish(t)
    \/ \E t \in Threads : Pause(t)
    \/ \E t \in Threads, ok \in BOOLEAN : PauseResponse(t, ok)
    \/ \E t \in Threads : Resume(t)
    \/ \E t \in Threads, ok \in BOOLEAN : ResumeResponse(t, ok)
    \/ \E t \in Threads, p \in 1..MaxPriority : SetPriority(t, p)
    \/ \E t \in Threads : UnsetPriority(t)
    \/ \E t \in Threads, resp \in PriorityResponses : SetPriorityResponse(t, resp)
    \/ \E t \in Threads : SetPreferredLayers(t, ConsumerLayers(1, 0))
    \/ \E t \in Threads, resp \in LayersResponses : SetPreferredLayersResponse(t, resp)
    \/ \E n \in ControlNotifications : ChannelDispatch(n)
    \/ \E n \in PayloadNotifications : PayloadChannelDispatch(n)
    \/ OnProducerClose
    \/ OnProducerPause
    \/ OnProducerResume
    \/ OnScore
    \/ OnLayersChange
    \/ OnTrace
    \/ OnUnknown
    \/ OnRtp
    \/ OnUnknownPayload

Spec == Init /\ [][Next]_vars

\* ---- operations one at a time ----
\* calls and handlers that have begun and not returned
InProgress ==
    Cardinality({t \in Threads : pc[t] # "idle"})
    + (IF chInflight # None THEN 1 ELSE 0)
    + (IF pchInflight # None THEN 1 ELSE 0)

\* A step is taken only if it leaves at most one operation in progress: no call
\* or notification begins before the one in progress has returned.
OneAtATime == InProgress' <= 1

SeqNext ==
    \/ \E t \in Threads : Close(t) /\ OneAtATime
    \/ \E t \in Threads : CloseUnsubscribe(t) /\ OneAtATime
    \/ \E t \in Threads, ok \in BOOLEAN : CloseResponse(t, ok) /\ OneAtATime
    \/ \E t \in Threads : TransportClosed(t) /\ OneAtATime
    \/ \E t \in Threads : TransportClosedFinish(t) /\ OneAtATime
    \/ \E t \in Threads : Pause(t) /\ OneAtATime
    \/ \E t \in Threads, ok \in BOOLEAN : PauseResponse(t, ok) /\ OneAtATime
    \/ \E t \in Threads : Resume(t) /\ OneAtATime
    \/ \E t \in Threads, ok \in BOOLEAN : ResumeResponse(t, ok) /\ OneAtATime
    \/ \E t \in Threads, p \in 1..MaxPriority : SetPriority(t, p) /\ OneAtATime
    \/ \E t \in Threads : UnsetPriority(t) /\ OneAtATime
    \/ \E t \in Threads, resp \in PriorityResponses : SetPriorityResponse(t, resp) /\ OneAtATime
    \/ \E t \in Threads : SetPreferredLayers(t, ConsumerLayers(1, 0)) /\ OneAtATime
    \/ \E t \in Threads, resp \in LayersResponses : SetPreferredLayersResponse(t, resp) /\ OneAtATime
    \/ \E n \in ControlNotifications : ChannelDispatch(n) /\ OneAtATime
    \/ \E n \in PayloadNotifications : PayloadChannelDispatch(n) /\ OneAtATime
    \/ OnProducerClose /\ OneAtATime
    \/ OnProducerPause /\ OneAtATime
    \/ OnProducerResume /\ OneAtATime
    \/ OnScore /\ OneAtATime
    \/ OnLayersChange /\ OneAtATime
    \/ OnTrace /\ OneAtATime
    \/ OnUnknown /\ OneAtATime
    \/ OnRtp /\ OneAtATime
    \/ OnUnknownPayload /\ OneAtATime

SeqSpec == Init /\ [][SeqNext]_vars
====
